---- MODULE Spec2Model ----
(***************************************************************************)
(* A model of the change-propagation runtime of this repository:           *)
(*   - the intercepted array methods (src/core/observer/array.js),         *)
(*   - the update scheduler (src/core/observer/scheduler.js),              *)
(*   - the async component resolver                                        *)
(*     (src/core/vdom/helpers/resolve-async-component.js).                 *)
(*                                                                         *)
(* JavaScript is single threaded: every action below is the piece of code  *)
(* that runs between two calls into foreign code (watcher.before(),        *)
(* watcher.run(), a lifecycle hook, the producer of an async component) or *)
(* between two tasks of the event loop.  `pc` says which foreign code is   *)
(* on the stack; the scheduler's entry points are enabled wherever foreign *)
(* code runs.                                                              *)
(*                                                                         *)
(* Assumptions on foreign code: config.async is true (its default), and    *)
(* watcher.run(), watcher.before() and the hooks return normally.          *)
(***************************************************************************)
EXTENDS Integers, Sequences, FiniteSets, TLC

\* ---------------------------------------------------------------- bounds

\* Watchers are 1..MaxId; a watcher is named by its id.
MaxId == 3
\* queueWatcher calls accepted per flush cycle while flushing or from a hook,
\* not counting the self re-enqueue of a looping watcher.
MaxFree == 2
\* Length of activatedChildren.
MaxActivated == 1
\* run() calls of one flush after which a chained watcher enqueues no more.
MaxRuns == 250

\* Consumers (component instances that render the async component) are 1..MaxConsumers.
MaxConsumers == 2
\* resolveAsyncComponent calls.
MaxRequests == 3
\* Calls of the completion and failure callbacks the producer makes before it returns.
MaxSyncCalls == 1
\* Calls of the callbacks the producer makes after it returned.
MaxAsyncCalls == 1

\* Length of the observed array.
MaxLen == 3
\* Elements passed to one call of an array method.
MaxArgs == 2
\* Array elements are 1..MaxVal.
MaxVal == 2

Ids == 1..MaxId
Consumers == 1..MaxConsumers

\* ------------------------------------------------------ program constants

MAX_UPDATE_COUNT == 100

\* --------------------------------------------------------------- state

VARIABLES
  \* scheduler.js module state
  queue,              \* Array<Watcher>, as the sequence of their ids
  activatedChildren,  \* Array<Component>
  has,                \* has[id]: TRUE for true, FALSE for null / undefined
  circular,           \* circular[id]: 0 for undefined
  waiting,
  flushing,
  index,              \* 0-based, as in the source: queue[index] is queue[index + 1] here
  \* control
  pc,                 \* "idle" | "before" | "run" | "post" | "activated" | "updated" | "passed"
  ticks,              \* flushSchedulerQueue callbacks registered with nextTick, not yet run
  activatedQueue,     \* flushSchedulerQueue's local copies
  updatedQueue,
  actI,               \* callActivatedHooks' i
  hookI,              \* callUpdatedHooks' i
  \* environment
  looper,             \* watchers whose run() always calls queueWatcher on itself
  chain,              \* chain[id]: the watcher run() of id always calls queueWatcher on (0: none)
  \* history, for the properties only
  dupId,              \* last id whose queueWatcher call was ignored outside a flush (0: none)
  flog,               \* the log of the flush in progress, see NoLog
  \* resolve-async-component.js: one factory
  factory,            \* its fields error, errorComp, resolved, loading, loadingComp, contexts
  called,             \* the flags of once(resolve) and once(reject)
  promise,            \* "none" | "pending" | "settled": the promise resolve / reject are chained to
  timers,             \* the setTimeout callbacks not yet run
  \* environment
  producer,           \* what factory(resolve, reject) returns
  \* history, for the properties only
  returned,           \* what the latest resolveAsyncComponent call returned, and to whom
  rlog,               \* the log of the resolver, see NoResolverLog
  \* array.js: one observed array
  arr,                \* its elements
  apc,                \* "idle" | "observe" | "notify": where the mutator stands
  acall               \* the mutator call in progress or the latest one, see NoCall

schedVars == <<queue, activatedChildren, has, circular, waiting, flushing, index,
               pc, ticks, activatedQueue, updatedQueue, actI, hookI, looper, chain,
               dupId, flog>>

resolverVars == <<factory, called, promise, timers, producer, returned, rlog>>

arrayVars == <<arr, apc, acall>>

vars == <<schedVars, resolverVars, arrayVars>>

\* The log of one flushSchedulerQueue call, from its start to its return.
NoLog == [ runLog    |-> <<>>,   \* ids in the order run() was called
           startQueue |-> <<>>,  \* the queue when the flush started, before the sort
           startDup  |-> 0,      \* dupId when the flush started
           midAcc    |-> {},     \* ids accepted by queueWatcher while flushing
           pendSmall |-> {},     \* accepted while flushing, id < running id, not run since
           pendLarge |-> {},     \* accepted while flushing, id > running id, not run since
           ranSmall  |-> {},     \* run in this flush after such an acceptance
           ranLarge  |-> {},
           exit      |-> "none", \* "normal" | "abort": how the run loop ended
           warned    |-> 0,      \* warn() calls
           hooked    |-> {},     \* ids of the watchers callHook(vm, 'updated') was called for
           free      |-> 0 ]     \* accepted calls counted against MaxFree

\* --------------------------------------------------------------- helpers

Range(s) == {s[k] : k \in 1..Len(s)}

Count(s, x) == Cardinality({k \in 1..Len(s) : s[k] = x})

IsSorted(s) == \A k \in 1..(Len(s) - 1) : s[k] <= s[k + 1]

StrictlyAscending(s) == \A k \in 1..(Len(s) - 1) : s[k] < s[k + 1]

\* s with x inserted so that it becomes element number k + 1 (Array.splice(k, 0, x))
Splice(s, k, x) == SubSeq(s, 1, k) \o <<x>> \o SubSeq(s, k + 1, Len(s))

RECURSIVE InsertSorted(_, _)
InsertSorted(s, x) ==
  IF s = <<>> THEN <<x>>
  ELSE IF x < Head(s) THEN <<x>> \o s
  ELSE <<Head(s)>> \o InsertSorted(Tail(s), x)

RECURSIVE SortById(_)
SortById(s) == IF s = <<>> THEN <<>> ELSE InsertSorted(SortById(SubSeq(s, 1, Len(s) - 1)), s[Len(s)])

\* queue.sort((a, b) => a.id - b.id)
SortQueueNot(q) == q
SortQueue(q) == SortById(q)

\* has[id] == null
NotQueuedAlways(h, id) == TRUE
NotQueued(h, id) == ~h[id]

\* the scan of queueWatcher: the final i (0-based) of
\*   let i = queue.length - 1; while (i > index && queue[i].id > watcher.id) i--
RECURSIVE ScanFrom(_, _, _, _)
ScanFrom(q, i, idx, id) ==
  IF i > idx /\ q[i + 1] > id THEN ScanFrom(q, i - 1, idx, id) ELSE i

ScanBackToEnd(q, idx, id) == Len(q) - 1
ScanBackPastCursor(q, idx, id) == ScanFrom(q, Len(q) - 1, -1, id)
ScanBack(q, idx, id) == ScanFrom(q, Len(q) - 1, idx, id)

\* circular[id] > MAX_UPDATE_COUNT
TooManyLate(c) == c > MAX_UPDATE_COUNT + 1
TooMany(c) == c > MAX_UPDATE_COUNT

\* if (!waiting)
MustScheduleAlways(w) == TRUE
MustSchedule(w) == ~w

\* has[id] = null
ClearHasNot(h, id) == h
ClearHas(h, id) == [h EXCEPT ![id] = FALSE]

\* the id of queue[index], the watcher of the current iteration
Current == queue[index + 1]

\* ---------------------------------------------------------------- Init

NoChain == [id \in Ids |-> 0]

SchedInit(loopers, chains) ==
  /\ queue = <<>>
  /\ activatedChildren = <<>>
  /\ has = [id \in Ids |-> FALSE]
  /\ circular = [id \in Ids |-> 0]
  /\ waiting = FALSE
  /\ flushing = FALSE
  /\ index = 0
  /\ pc = "idle"
  /\ ticks = 0
  /\ activatedQueue = <<>>
  /\ updatedQueue = <<>>
  /\ actI = 0
  /\ hookI = 0
  /\ looper \in loopers
  /\ chain \in chains
  /\ dupId = 0
  /\ flog = NoLog

\* ------------------------------------------------------------- queueWatcher

\* The log after queueWatcher accepted id (has[id] was unset).
LogAccept(id, forced) ==
  IF flushing
  THEN [flog EXCEPT
          !.midAcc    = @ \cup {id},
          !.pendSmall = IF id < Current THEN @ \cup {id} ELSE @,
          !.pendLarge = IF id > Current THEN @ \cup {id} ELSE @,
          !.free      = IF forced THEN @ ELSE @ + 1]
  ELSE [flog EXCEPT !.free = IF pc = "idle" THEN @ ELSE @ + 1]

\* queueWatcher(watcher), called by foreign code.
queueWatcher(id, forced) ==
  /\ IF NotQueued(has, id)
     THEN /\ has' = [has EXCEPT ![id] = TRUE]
          /\ queue' = IF ~flushing
                      THEN Append(queue, id)
                      ELSE Splice(queue, ScanBack(queue, index, id) + 1, id)
          /\ IF MustSchedule(waiting)
             THEN waiting' = TRUE /\ ticks' = ticks + 1
             ELSE UNCHANGED <<waiting, ticks>>
          /\ flog' = LogAccept(id, forced)
          /\ UNCHANGED dupId
     ELSE /\ UNCHANGED <<has, queue, waiting, ticks, flog>>
          /\ dupId' = IF flushing THEN dupId ELSE id
  /\ UNCHANGED <<activatedChildren, circular, flushing, index, pc,
                 activatedQueue, updatedQueue, actI, hookI, looper, chain>>

\* Foreign code calls queueWatcher: a task of its own.
QueueWatcherFromTask ==
  /\ pc = "idle"
  /\ \E id \in Ids : queueWatcher(id, FALSE)

\* A looper's run() calls queueWatcher on itself and nothing else, and its
\* before() calls nothing, and so for a chained watcher; any other watcher's
\* code calls as it likes.
FreeWatcher == pc \in {"before", "run"} /\ Current \notin looper /\ chain[Current] = 0

\* before() or run() of the watcher of the current iteration calls queueWatcher.
QueueWatcherFromWatcher ==
  /\ FreeWatcher
  /\ \E id \in Ids :
       /\ NotQueued(has, id) => flog.free < MaxFree
       /\ queueWatcher(id, FALSE)

\* An activated or updated hook calls queueWatcher.
QueueWatcherFromHook ==
  /\ pc \in {"activated", "updated"}
  /\ \E id \in Ids :
       /\ NotQueued(has, id) => flog.free < MaxFree
       /\ queueWatcher(id, FALSE)

\* The running watcher is a looper: its run() calls queueWatcher on itself.
QueueWatcherFromLooper ==
  /\ pc = "run"
  /\ Current \in looper
  /\ NotQueued(has, Current)
  /\ queueWatcher(Current, TRUE)

\* The running watcher is chained to another: its run() calls queueWatcher
\* on that one.
QueueWatcherFromChain ==
  /\ pc = "run"
  /\ chain[Current] # 0
  /\ NotQueued(has, chain[Current])
  /\ Len(flog.runLog) < MaxRuns
  /\ queueWatcher(chain[Current], TRUE)

\* queueActivatedComponent(vm), called while a render watcher patches.  The
\* scheduler never looks into vm: the k-th component queued is named k.
QueueActivatedComponent ==
  /\ FreeWatcher
  /\ pc = "run"
  /\ Len(activatedChildren) < MaxActivated
  /\ activatedChildren' = Append(activatedChildren, Len(activatedChildren) + 1)
  /\ UNCHANGED <<queue, has, circular, waiting, flushing, index, pc, ticks,
                 activatedQueue, updatedQueue, actI, hookI, looper, chain, dupId, flog>>

\* ------------------------------------------------------ flushSchedulerQueue

\* The loop body up to the call of foreign code, for the watcher at idx of q:
\* before() if the watcher has one, else has[id] = null and run().
EnterIteration(q, idx, h, log) ==
  LET id == q[idx + 1] IN
  \E withBefore \in BOOLEAN :
    IF withBefore
    THEN /\ pc' = "before"
         /\ has' = h
         /\ flog' = log
    ELSE /\ pc' = "run"
         /\ has' = ClearHas(h, id)
         /\ flog' = [log EXCEPT
                       !.runLog    = Append(@, id),
                       !.ranSmall  = IF id \in log.pendSmall THEN @ \cup {id} ELSE @,
                       !.ranLarge  = IF id \in log.pendLarge THEN @ \cup {id} ELSE @,
                       !.pendSmall = @ \ {id},
                       !.pendLarge = @ \ {id}]

\* After the loop: the copies, then resetSchedulerState().
ExitLoopKeepsState(q, log) ==
  /\ activatedQueue' = activatedChildren
  /\ updatedQueue' = q
  /\ flushing' = FALSE
  /\ pc' = "post"
  /\ flog' = log
  /\ UNCHANGED <<index, queue, activatedChildren, has, circular, waiting, dupId,
                 actI, hookI, looper, chain>>
ExitLoop(q, log) ==
  /\ activatedQueue' = activatedChildren
  /\ updatedQueue' = q
  /\ index' = 0
  /\ queue' = <<>>
  /\ activatedChildren' = <<>>
  /\ has' = [id \in Ids |-> FALSE]
  /\ circular' = [id \in Ids |-> 0]
  /\ waiting' = FALSE
  /\ flushing' = FALSE
  /\ pc' = "post"
  /\ dupId' = 0
  /\ flog' = log
  /\ UNCHANGED <<actI, hookI, looper, chain>>

\* The test of the for loop with index = idx, and what follows it.
LoopTest(q, idx, h, c, log) ==
  IF idx < Len(q)
  THEN /\ EnterIteration(q, idx, h, log)
       /\ index' = idx
       /\ queue' = q
       /\ circular' = c
       /\ flushing' = TRUE
       /\ UNCHANGED <<activatedChildren, waiting, activatedQueue, updatedQueue,
                      actI, hookI, looper, chain, dupId>>
  ELSE ExitLoop(q, [log EXCEPT !.exit = "normal"])

\* The tick: nextTick runs a registered flushSchedulerQueue, up to the first
\* call of foreign code.
FlushSchedulerQueue ==
  /\ pc = "idle"
  /\ ticks > 0
  /\ ticks' = ticks - 1
  /\ LoopTest(SortQueue(queue), 0, has, circular,
              [NoLog EXCEPT !.startQueue = queue, !.startDup = dupId])

\* watcher.before() returns: has[id] = null, then watcher.run().
BeforeReturn ==
  /\ pc = "before"
  /\ pc' = "run"
  /\ has' = ClearHas(has, Current)
  /\ flog' = [flog EXCEPT
                !.runLog    = Append(@, Current),
                !.ranSmall  = IF Current \in flog.pendSmall THEN @ \cup {Current} ELSE @,
                !.ranLarge  = IF Current \in flog.pendLarge THEN @ \cup {Current} ELSE @,
                !.pendSmall = @ \ {Current},
                !.pendLarge = @ \ {Current}]
  /\ UNCHANGED <<queue, activatedChildren, circular, waiting, flushing, index, ticks,
                 activatedQueue, updatedQueue, actI, hookI, looper, chain, dupId>>

\* watcher.run() returns: the circular check of the diagnostic build
\* (process.env.NODE_ENV !== 'production'), then index++ and the loop test.
RunReturn ==
  /\ pc = "run"
  /\ Current \in looper => has[Current]
  /\ chain[Current] # 0 => has[chain[Current]]
  /\ UNCHANGED ticks
  /\ LET id == Current
         c  == [circular EXCEPT ![id] = @ + 1]
     IN  IF has[id]
         THEN IF TooMany(c[id])
              THEN ExitLoop(queue, [flog EXCEPT !.exit = "abort", !.warned = @ + 1])
              ELSE LoopTest(queue, index + 1, has, c, flog)
         ELSE LoopTest(queue, index + 1, has, circular, flog)

\* ------------------------------------------------------------ the hooks

\* flushSchedulerQueue returns (the devtools notification is not modelled).
FlushReturn ==
  /\ pc' = "idle"
  /\ activatedQueue' = <<>>
  /\ updatedQueue' = <<>>
  /\ actI' = 0
  /\ hookI' = 0
  /\ flog' = NoLog

\* callUpdatedHooks' loop with i entries left: while (i--), then the test
\*   vm._watcher === watcher && vm._isMounted && !vm._isDestroyed
\* on fields of the instance, which the scheduler does not own: either
\* callHook(vm, 'updated') is called or the entry is passed over.
UpdatedLoop(i) ==
  IF i = 0
  THEN FlushReturn
  ELSE /\ hookI' = i - 1
       /\ \E isLiveRender \in BOOLEAN :
            /\ pc' = IF isLiveRender THEN "updated" ELSE "passed"
            /\ flog' = IF isLiveRender
                       THEN [flog EXCEPT !.hooked = @ \cup {updatedQueue[i]}]
                       ELSE flog
       /\ UNCHANGED <<activatedQueue, updatedQueue, actI>>

\* callActivatedHooks(activatedQueue), then callUpdatedHooks(updatedQueue),
\* up to the first call of foreign code.
CallHooks ==
  /\ pc = "post"
  /\ IF Len(activatedQueue) > 0
     THEN /\ pc' = "activated"
          /\ actI' = 0
          /\ UNCHANGED <<activatedQueue, updatedQueue, hookI, flog>>
     ELSE UpdatedLoop(Len(updatedQueue))
  /\ UNCHANGED <<queue, activatedChildren, has, circular, waiting, flushing, index,
                 ticks, looper, chain, dupId>>

\* activateChildComponent(queue[i], true) returns.
ActivatedReturn ==
  /\ pc = "activated"
  /\ IF actI + 1 < Len(activatedQueue)
     THEN /\ actI' = actI + 1
          /\ UNCHANGED <<pc, activatedQueue, updatedQueue, hookI, flog>>
     ELSE UpdatedLoop(Len(updatedQueue))
  /\ UNCHANGED <<queue, activatedChildren, has, circular, waiting, flushing, index,
                 ticks, looper, chain, dupId>>

\* callHook(vm, 'updated') returns, or the entry was passed over.
UpdatedReturn ==
  /\ pc \in {"updated", "passed"}
  /\ UpdatedLoop(hookI)
  /\ UNCHANGED <<queue, activatedChildren, has, circular, waiting, flushing, index,
                 ticks, looper, chain, dupId>>

\* ------------------------------------------------------- the resolver

\* undefined, and a defined value
Undef == <<>>
Def(v) == <<v>>
Val(x) == x[1]
isDef(x) == x # Undef
isUndef(x) == x = Undef

\* What a producer hands over: a constructor, or an ES module whose default
\* export is an options object.
Results == [name : {"A", "B"}, shape : {"ctor", "module"}]
ErrorDef == [name |-> "Error", shape |-> "options"]
LoadingDef == [name |-> "Loading", shape |-> "options"]

\* ensureCtor(comp, base): comp.default of a module, and base.extend(comp) of
\* an object; a constructor is kept.
ensureCtor(comp) == [name |-> comp.name, extended |-> comp.shape # "ctor"]

\* once(fn) of core/util: the first call runs fn, every later call does nothing.
once(flag, later, first) == IF flag THEN later ELSE first

\* A producer returns nothing (it uses the callbacks), a promise, a resource
\* descriptor { component, error, loading, delay, timeout }, or another object.
\* One that returns a descriptor settles through the descriptor's promise; the
\* others may call the callbacks themselves, before and after they return.
Producers ==
  {[ret |-> r, error |-> FALSE, loading |-> FALSE, delay0 |-> FALSE, timeout |-> FALSE] :
      r \in {"nothing", "promise", "object"}}
  \cup [ret : {"descriptor"}, error : BOOLEAN, loading : BOOLEAN, delay0 : BOOLEAN,
        timeout : BOOLEAN]

\* A call of one of the two callbacks.
Calls == [op : {"resolve"}, res : Results] \cup [op : {"reject"}, res : {ErrorDef}]

NoResolverLog ==
  [ requests      |-> 0,      \* calls of resolveAsyncComponent
    invoked       |-> 0,      \* calls of factory(resolve, reject)
    first         |-> Undef,  \* the argument of the first call of resolve
    differing     |-> FALSE,  \* a later call of resolve had another argument
    callbacks     |-> 0,      \* calls of resolve and of reject
    asyncCalls    |-> 0,      \* those the producer made after it returned
    writes        |-> 0,      \* assignments to factory.resolved
    reasons       |-> <<>>,   \* who called reject when it ran its body
    forced        |-> [why \in {"resolve", "reject", "loading"} |->
                         [c \in Consumers |-> 0]],  \* $forceUpdate calls
    askedBefore   |-> {},     \* consumers whose call returned while factory.resolved was unset
    resolvedAsync |-> FALSE ] \* resolve ran its body after the first call returned

\* The cells the callbacks work on.
World == [f |-> factory, called |-> called, h |-> rlog]

\* forceRender(renderCompleted)
forceRender(w, renderCompleted, why) ==
  LET contexts == Val(w.f.contexts) IN
  [w EXCEPT
     !.h.forced[why] = [c \in Consumers |-> @[c] + Count(contexts, c)],
     !.f.contexts = IF renderCompleted THEN Def(<<>>) ELSE @]

LogResolve(w, res) ==
  [w EXCEPT !.h.first     = IF isUndef(@) THEN Def(res) ELSE @,
            !.h.differing = @ \/ (isDef(w.h.first) /\ Val(w.h.first) # res),
            !.h.callbacks = @ + 1]

\* resolve(res), the once-wrapped completion callback
resolveEveryTime(w, res, sync) ==
  LET w1 == LogResolve(w, res)
      w2 == [w1 EXCEPT !.f.resolved = Def(ensureCtor(res)), !.h.writes = @ + 1]
  IN  IF ~sync
      THEN forceRender([w2 EXCEPT !.h.resolvedAsync = TRUE], TRUE, "resolve")
      ELSE [w2 EXCEPT !.f.contexts = Def(<<>>)]
resolve(w, res, sync) ==
  LET w1 == LogResolve(w, res)
      w2 == [w1 EXCEPT !.called.resolve = TRUE,
                       !.f.resolved = Def(ensureCtor(res)),
                       !.h.writes = @ + 1]
  IN  once(w.called.resolve, w1,
           IF ~sync
           THEN forceRender([w2 EXCEPT !.h.resolvedAsync = TRUE], TRUE, "resolve")
           ELSE [w2 EXCEPT !.f.contexts = Def(<<>>)])

\* reject(reason), the once-wrapped failure callback
reject(w, reason) ==
  LET w1 == [w EXCEPT !.h.callbacks = @ + 1]
      w2 == [w1 EXCEPT !.called.reject = TRUE, !.h.reasons = Append(@, reason)]
  IN  once(w.called.reject, w1,
           IF isDef(w.f.errorComp)
           THEN forceRender([w2 EXCEPT !.f.error = TRUE], TRUE, "reject")
           ELSE w2)

Invoke(w, call, sync, who) ==
  IF call.op = "resolve" THEN resolve(w, call.res, sync) ELSE reject(w, who)

RECURSIVE InvokeAll(_, _, _, _)
InvokeAll(w, calls, sync, who) ==
  IF calls = <<>> THEN w
  ELSE InvokeAll(Invoke(w, Head(calls), sync, who), Tail(calls), sync, who)

\* isDef(factory.contexts): already pending
AlreadyPendingNever(f) == FALSE
AlreadyPending(f) == isDef(f.contexts)

ResolverInit(producers) ==
  /\ factory = [error |-> FALSE, errorComp |-> Undef, resolved |-> Undef,
                loading |-> FALSE, loadingComp |-> Undef, contexts |-> Undef]
  /\ called = [resolve |-> FALSE, reject |-> FALSE]
  /\ promise = "none"
  /\ timers = [delay |-> FALSE, timeout |-> FALSE]
  /\ producer \in producers
  /\ returned = [to |-> 0, value |-> "undefined"]
  /\ rlog = NoResolverLog

\* The call returns value to consumer c.
Return(c, value, f, log) ==
  /\ returned' = [to |-> c, value |-> value]
  /\ factory' = f
  /\ rlog' = [log EXCEPT
                !.requests    = @ + 1,
                !.askedBefore = IF isUndef(f.resolved) THEN @ \cup {c} ELSE @]

SyncCallsOf(p) == IF p.ret = "descriptor" THEN 0 ELSE MaxSyncCalls

\* The first request: factory.contexts = [context], sync = true, the producer
\* called (it may call the callbacks before it returns), its result looked
\* at, sync = false, and the return.
FirstRequest(c) ==
  \E syncCalls \in UNION {[1..n -> Calls] : n \in 0..SyncCallsOf(producer)} :
    LET w0 == [World EXCEPT !.f.contexts = Def(<<c>>), !.h.invoked = @ + 1]
        w1 == InvokeAll(w0, syncCalls, TRUE, "producer")
        res == producer
        chained == \/ res.ret = "promise" /\ isUndef(w1.f.resolved)
                   \/ res.ret = "descriptor"
        d == res.ret = "descriptor"
        f2 == [w1.f EXCEPT
                 !.errorComp   = IF d /\ res.error THEN Def(ensureCtor(ErrorDef)) ELSE @,
                 !.loadingComp = IF d /\ res.loading THEN Def(ensureCtor(LoadingDef)) ELSE @,
                 !.loading     = IF d /\ res.loading /\ res.delay0 THEN TRUE ELSE @]
    IN  /\ called' = w1.called
        /\ promise' = IF chained THEN "pending" ELSE promise
        /\ timers' = [delay   |-> d /\ res.loading /\ ~res.delay0,
                      timeout |-> d /\ res.timeout]
        /\ Return(c, IF f2.loading THEN "loadingComp"
                     ELSE IF isDef(f2.resolved) THEN "resolved" ELSE "undefined",
                  f2, w1.h)

\* resolveAsyncComponent(factory, baseCtor, context), called by consumer c.
ResolveAsyncComponent ==
  /\ rlog.requests < MaxRequests
  /\ \E c \in Consumers :
       IF factory.error /\ isDef(factory.errorComp)
       THEN /\ Return(c, "errorComp", factory, rlog)
            /\ UNCHANGED <<called, promise, timers>>
       ELSE IF isDef(factory.resolved)
       THEN /\ Return(c, "resolved", factory, rlog)
            /\ UNCHANGED <<called, promise, timers>>
       ELSE IF factory.loading /\ isDef(factory.loadingComp)
       THEN /\ Return(c, "loadingComp", factory, rlog)
            /\ UNCHANGED <<called, promise, timers>>
       ELSE IF AlreadyPending(factory)
       THEN /\ Return(c, "undefined",
                      [factory EXCEPT !.contexts = Def(Append(Val(@), c))], rlog)
            /\ UNCHANGED <<called, promise, timers>>
       ELSE FirstRequest(c)
  /\ UNCHANGED producer

\* The outcome of callbacks run after the first call returned.
Settle(w) ==
  /\ factory' = w.f
  /\ called' = w.called
  /\ rlog' = w.h

\* The producer calls resolve or reject after it returned.
ProducerCallback ==
  /\ rlog.invoked > 0
  /\ producer.ret # "descriptor"
  /\ rlog.asyncCalls < MaxAsyncCalls
  /\ \E call \in Calls :
       Settle(Invoke([World EXCEPT !.h.asyncCalls = @ + 1], call, FALSE, "producer"))
  /\ UNCHANGED <<promise, timers, producer, returned>>

\* The promise settles: then(resolve, reject).
PromiseSettles ==
  /\ promise = "pending"
  /\ promise' = "settled"
  /\ \E call \in Calls : Settle(Invoke(World, call, FALSE, "promise"))
  /\ UNCHANGED <<timers, producer, returned>>

\* isUndef(factory.resolved) && isUndef(factory.error)
StillPendingAlways(f) == TRUE
StillPending(f) == isUndef(f.resolved) /\ ~f.error

\* The timer of res.delay || 200.
DelayTimer ==
  /\ timers.delay
  /\ timers' = [timers EXCEPT !.delay = FALSE]
  /\ IF StillPending(factory)
     THEN Settle(forceRender([World EXCEPT !.f.loading = TRUE], FALSE, "loading"))
     ELSE UNCHANGED <<factory, called, rlog>>
  /\ UNCHANGED <<promise, producer, returned>>

\* The timer of res.timeout.
TimeoutTimer ==
  /\ timers.timeout
  /\ timers' = [timers EXCEPT !.timeout = FALSE]
  /\ IF isUndef(factory.resolved)
     THEN Settle(reject(World, "timeout"))
     ELSE UNCHANGED <<factory, called, rlog>>
  /\ UNCHANGED <<promise, producer, returned>>

\* --------------------------------------------------- the array methods

Vals == 1..MaxVal

methodsToPatch == {"push", "pop", "shift", "unshift", "splice", "sort", "reverse"}

SeqsUpTo(S, n) == UNION {[1..k -> S] : k \in 0..n}

\* args.slice(k): the arguments from position k (0-based) on
slice(args, k) == IF k >= Len(args) THEN <<>> ELSE SubSeq(args, k + 1, Len(args))

Min(a, b) == IF a < b THEN a ELSE b
Max(a, b) == IF a > b THEN a ELSE b

RECURSIVE Reverse(_)
Reverse(s) == IF s = <<>> THEN <<>> ELSE Append(Reverse(Tail(s)), Head(s))

\* Array.prototype.splice(start, deleteCount, ...items) on a: the relative
\* start and the clamped count of ECMAScript; the result is the removed part.
NativeSplice(a, args) ==
  LET len   == Len(a)
      start == IF args = <<>> THEN 0
               ELSE IF args[1] < 0 THEN Max(len + args[1], 0) ELSE Min(args[1], len)
      count == IF args = <<>> THEN 0
               ELSE IF Len(args) = 1 THEN len - start
               ELSE Min(Max(args[2], 0), len - start)
  IN  [arr    |-> SubSeq(a, 1, start) \o slice(args, 2) \o SubSeq(a, start + count + 1, len),
       result |-> SubSeq(a, start + 1, start + count)]

\* original.apply(this, args): the array after the native method, and what
\* the method returns, written as a sequence (<<>> for undefined, <<v>> for
\* a value v, the array for an array).
Native(method, a, args) ==
  CASE method = "push"    -> [arr |-> a \o args, result |-> <<Len(a) + Len(args)>>]
    [] method = "unshift" -> [arr |-> args \o a, result |-> <<Len(a) + Len(args)>>]
    [] method = "pop"     -> IF a = <<>> THEN [arr |-> a, result |-> <<>>]
                             ELSE [arr |-> SubSeq(a, 1, Len(a) - 1), result |-> <<a[Len(a)]>>]
    [] method = "shift"   -> IF a = <<>> THEN [arr |-> a, result |-> <<>>]
                             ELSE [arr |-> Tail(a), result |-> <<Head(a)>>]
    [] method = "splice"  -> NativeSplice(a, args)
    [] method = "sort"    -> [arr |-> SortById(a), result |-> SortById(a)]
    [] method = "reverse" -> [arr |-> Reverse(a), result |-> Reverse(a)]

\* The switch of the mutator: inserted, undefined if no case matches.
InsertedAllArgs(method, args) ==
  IF method \in {"push", "unshift", "splice"} THEN Def(args) ELSE Undef
Inserted(method, args) ==
  CASE method \in {"push", "unshift"} -> Def(args)
    [] method = "splice"              -> Def(slice(args, 2))
    [] OTHER                          -> Undef

\* The argument lists a caller passes: elements for push and unshift; start,
\* deleteCount and elements for splice; none for the others (sort is called
\* with the default order).
ArgsOf(method) ==
  CASE method \in {"push", "unshift"} -> SeqsUpTo(Vals, MaxArgs)
    [] method = "splice" ->
         {<<>>} \cup {<<s>> : s \in (0 - 1)..MaxLen}
           \cup {<<s, d>> \o items : s \in (0 - 1)..MaxLen, d \in 0..MaxArgs,
                                     items \in SeqsUpTo(Vals, MaxArgs)}
    [] OTHER -> {<<>>}

NoCall == [ method   |-> "none",
            args     |-> <<>>,
            before   |-> <<>>,   \* the array when the method was called
            result   |-> <<>>,   \* what the method returns
            inserted |-> Undef,
            observed |-> <<>>,   \* the elements passed to ob.observeArray
            events   |-> <<>> ]  \* "native", "observeArray", "notify" in the order they happened

ArrayInit ==
  /\ arr = <<>>
  /\ apc = "idle"
  /\ acall = NoCall

\* mutator(...args) up to its first call of foreign code: the native method,
\* then the switch.
Mutator ==
  /\ apc = "idle"
  /\ \E method \in methodsToPatch :
       \E args \in ArgsOf(method) :
         LET r   == Native(method, arr, args)
             ins == Inserted(method, args)
         IN  /\ Len(r.arr) <= MaxLen
             /\ arr' = r.arr
             /\ acall' = [method |-> method, args |-> args, before |-> arr,
                          result |-> r.result, inserted |-> ins,
                          observed |-> <<>>, events |-> <<"native">>]
             /\ apc' = IF isDef(ins) THEN "observe" ELSE "notify"

\* if (inserted) ob.observeArray(inserted)
ObserveArray ==
  /\ apc = "observe"
  /\ acall' = [acall EXCEPT !.observed = @ \o Val(acall.inserted),
                            !.events = Append(@, "observeArray")]
  /\ apc' = "notify"
  /\ UNCHANGED arr

\* ob.dep.notify(), then return result
Notify ==
  /\ apc = "notify"
  /\ acall' = [acall EXCEPT !.events = Append(@, "notify")]
  /\ apc' = "idle"
  /\ UNCHANGED arr

\* ------------------------------------------------------- specifications

NoProducer ==
  [ret |-> "nothing", error |-> FALSE, loading |-> FALSE, delay0 |-> FALSE, timeout |-> FALSE]

\* The scheduler, its callers free.
Init == SchedInit({{}}, {NoChain}) /\ ResolverInit({NoProducer}) /\ ArrayInit

Next ==
  \/ QueueWatcherFromTask /\ UNCHANGED <<resolverVars, arrayVars>>
  \/ QueueWatcherFromWatcher /\ UNCHANGED <<resolverVars, arrayVars>>
  \/ QueueWatcherFromHook /\ UNCHANGED <<resolverVars, arrayVars>>
  \/ QueueActivatedComponent /\ UNCHANGED <<resolverVars, arrayVars>>
  \/ FlushSchedulerQueue /\ UNCHANGED <<resolverVars, arrayVars>>
  \/ BeforeReturn /\ UNCHANGED <<resolverVars, arrayVars>>
  \/ RunReturn /\ UNCHANGED <<resolverVars, arrayVars>>
  \/ CallHooks /\ UNCHANGED <<resolverVars, arrayVars>>
  \/ ActivatedReturn /\ UNCHANGED <<resolverVars, arrayVars>>
  \/ UpdatedReturn /\ UNCHANGED <<resolverVars, arrayVars>>

Spec == Init /\ [][Next]_vars

\* The scheduler with one looper among the watchers; the hooks call nothing.
InitCircular == SchedInit({{id} : id \in Ids}, {NoChain}) /\ ResolverInit({NoProducer}) /\ ArrayInit

NextCircular ==
  \/ QueueWatcherFromTask /\ UNCHANGED <<resolverVars, arrayVars>>
  \/ QueueWatcherFromWatcher /\ UNCHANGED <<resolverVars, arrayVars>>
  \/ QueueWatcherFromLooper /\ UNCHANGED <<resolverVars, arrayVars>>
  \/ QueueActivatedComponent /\ UNCHANGED <<resolverVars, arrayVars>>
  \/ FlushSchedulerQueue /\ UNCHANGED <<resolverVars, arrayVars>>
  \/ BeforeReturn /\ UNCHANGED <<resolverVars, arrayVars>>
  \/ RunReturn /\ UNCHANGED <<resolverVars, arrayVars>>
  \/ CallHooks /\ UNCHANGED <<resolverVars, arrayVars>>
  \/ ActivatedReturn /\ UNCHANGED <<resolverVars, arrayVars>>
  \/ UpdatedReturn /\ UNCHANGED <<resolverVars, arrayVars>>

SpecCircular == InitCircular /\ [][NextCircular]_vars

\* The scheduler with no looper or one, its other callers free, the hooks too.
InitHooks ==
  SchedInit({{}} \cup {{id} : id \in Ids}, {NoChain}) /\ ResolverInit({NoProducer}) /\ ArrayInit

NextHooks ==
  \/ QueueWatcherFromTask /\ UNCHANGED <<resolverVars, arrayVars>>
  \/ QueueWatcherFromWatcher /\ UNCHANGED <<resolverVars, arrayVars>>
  \/ QueueWatcherFromLooper /\ UNCHANGED <<resolverVars, arrayVars>>
  \/ QueueWatcherFromHook /\ UNCHANGED <<resolverVars, arrayVars>>
  \/ QueueActivatedComponent /\ UNCHANGED <<resolverVars, arrayVars>>
  \/ FlushSchedulerQueue /\ UNCHANGED <<resolverVars, arrayVars>>
  \/ BeforeReturn /\ UNCHANGED <<resolverVars, arrayVars>>
  \/ RunReturn /\ UNCHANGED <<resolverVars, arrayVars>>
  \/ CallHooks /\ UNCHANGED <<resolverVars, arrayVars>>
  \/ ActivatedReturn /\ UNCHANGED <<resolverVars, arrayVars>>
  \/ UpdatedReturn /\ UNCHANGED <<resolverVars, arrayVars>>

SpecHooks == InitHooks /\ [][NextHooks]_vars

\* The scheduler with watchers whose run() enqueues another watcher or
\* itself, in every combination; nothing else is enqueued during a flush.
Chains == [Ids -> 0..MaxId]

InitChained == SchedInit({{}}, Chains) /\ ResolverInit({NoProducer}) /\ ArrayInit

NextChained ==
  \/ QueueWatcherFromTask /\ UNCHANGED <<resolverVars, arrayVars>>
  \/ QueueWatcherFromChain /\ UNCHANGED <<resolverVars, arrayVars>>
  \/ FlushSchedulerQueue /\ UNCHANGED <<resolverVars, arrayVars>>
  \/ BeforeReturn /\ UNCHANGED <<resolverVars, arrayVars>>
  \/ RunReturn /\ UNCHANGED <<resolverVars, arrayVars>>
  \/ CallHooks /\ UNCHANGED <<resolverVars, arrayVars>>
  \/ UpdatedReturn /\ UNCHANGED <<resolverVars, arrayVars>>

SpecChained == InitChained /\ [][NextChained]_vars

\* The scheduler with two watchers whose run() enqueue each other, or none
\* such, every other caller free.  The tick fires, and foreign code returns
\* once it has made its calls.
PingPong == [id \in Ids |-> IF id = 1 THEN 2 ELSE IF id = 2 THEN 1 ELSE 0]

InitLive == SchedInit({{}}, {NoChain, PingPong}) /\ ResolverInit({NoProducer}) /\ ArrayInit

NextLive ==
  \/ QueueWatcherFromTask /\ UNCHANGED <<resolverVars, arrayVars>>
  \/ QueueWatcherFromWatcher /\ UNCHANGED <<resolverVars, arrayVars>>
  \/ QueueWatcherFromChain /\ UNCHANGED <<resolverVars, arrayVars>>
  \/ QueueWatcherFromHook /\ UNCHANGED <<resolverVars, arrayVars>>
  \/ QueueActivatedComponent /\ UNCHANGED <<resolverVars, arrayVars>>
  \/ FlushSchedulerQueue /\ UNCHANGED <<resolverVars, arrayVars>>
  \/ BeforeReturn /\ UNCHANGED <<resolverVars, arrayVars>>
  \/ RunReturn /\ UNCHANGED <<resolverVars, arrayVars>>
  \/ CallHooks /\ UNCHANGED <<resolverVars, arrayVars>>
  \/ ActivatedReturn /\ UNCHANGED <<resolverVars, arrayVars>>
  \/ UpdatedReturn /\ UNCHANGED <<resolverVars, arrayVars>>

Fairness ==
  /\ WF_vars(FlushSchedulerQueue /\ UNCHANGED <<resolverVars, arrayVars>>)
  /\ WF_vars(QueueWatcherFromChain /\ UNCHANGED <<resolverVars, arrayVars>>)
  /\ WF_vars(BeforeReturn /\ UNCHANGED <<resolverVars, arrayVars>>)
  /\ WF_vars(RunReturn /\ UNCHANGED <<resolverVars, arrayVars>>)
  /\ WF_vars(CallHooks /\ UNCHANGED <<resolverVars, arrayVars>>)
  /\ WF_vars(ActivatedReturn /\ UNCHANGED <<resolverVars, arrayVars>>)
  /\ WF_vars(UpdatedReturn /\ UNCHANGED <<resolverVars, arrayVars>>)

SpecLive == InitLive /\ [][NextLive]_vars /\ Fairness

\* The resolver of one factory, for every producer.
InitResolver == SchedInit({{}}, {NoChain}) /\ ResolverInit(Producers) /\ ArrayInit

NextResolver ==
  \/ ResolveAsyncComponent /\ UNCHANGED <<schedVars, arrayVars>>
  \/ ProducerCallback /\ UNCHANGED <<schedVars, arrayVars>>
  \/ PromiseSettles /\ UNCHANGED <<schedVars, arrayVars>>
  \/ DelayTimer /\ UNCHANGED <<schedVars, arrayVars>>
  \/ TimeoutTimer /\ UNCHANGED <<schedVars, arrayVars>>

SpecResolver == InitResolver /\ [][NextResolver]_vars

\* The intercepted methods of one observed array.
InitArray == SchedInit({{}}, {NoChain}) /\ ResolverInit({NoProducer}) /\ ArrayInit

NextArray ==
  \/ Mutator /\ UNCHANGED <<schedVars, resolverVars>>
  \/ ObserveArray /\ UNCHANGED <<schedVars, resolverVars>>
  \/ Notify /\ UNCHANGED <<schedVars, resolverVars>>

SpecArray == InitArray /\ [][NextArray]_vars

\* ------------------------------------------------- scheduler properties

\* The entries of the queue the run loop has not reached: those behind the
\* cursor and, until its run() is called, the one at the cursor.
PendingFrom == IF pc = "before" THEN index + 1 ELSE index + 2

IsPending(id) == \E k \in PendingFrom..Len(queue) : queue[k] = id

\* Watchers queued when the flush started that queueWatcher did not accept
\* again during the flush.
QueuedOnce == Range(flog.startQueue) \ flog.midAcc

OneEntryEach ==
  ~flushing => \A id \in Ids : Count(queue, id) = (IF has[id] THEN 1 ELSE 0)

\* C1, as stated: between two flushes a watcher enqueued one or more times
\* holds exactly one entry of the queue, and the following flush calls its
\* run() exactly once if nothing enqueues it again during that flush.
C1_DedupExactlyOnce ==
  /\ OneEntryEach
  /\ flog.exit # "none" => \A id \in QueuedOnce : Count(flog.runLog, id) = 1

\* C1, amended: between two flushes a watcher enqueued one or more times
\* holds exactly one entry of the queue; the following flush calls its run()
\* at most once, and exactly once when the run loop reaches the end of the
\* queue (a flush the circular guard aborts drops the watchers it has not
\* reached), if nothing enqueues it again during that flush.
C1_DedupOncePerCompletedFlush ==
  /\ OneEntryEach
  /\ \A id \in QueuedOnce : Count(flog.runLog, id) <= 1
  /\ flog.exit = "normal" => \A id \in QueuedOnce : Count(flog.runLog, id) = 1

\* A flush ran to its end; a watcher whose repeated queueWatcher call had
\* been ignored before the flush was run once.
C1_Witness ==
  /\ flog.exit = "normal"
  /\ flog.startDup \in QueuedOnce
  /\ Count(flog.runLog, flog.startDup) = 1

\* C2: watchers enqueued in any order before the flush, none during it, are
\* run in strictly ascending id order, each of them.
C2_AscendingOrder ==
  flog.midAcc = {} =>
    /\ StrictlyAscending(flog.runLog)
    /\ Range(flog.runLog) \subseteq Range(flog.startQueue)
    /\ flog.exit # "none" =>
         /\ Range(flog.runLog) = Range(flog.startQueue)
         /\ Len(flog.runLog) = Len(flog.startQueue)

\* Enqueued as [3, 1, 2], run as [1, 2, 3].
C2_Witness ==
  /\ flog.exit = "normal"
  /\ flog.midAcc = {}
  /\ flog.startQueue = <<3, 1, 2>>
  /\ flog.runLog = <<1, 2, 3>>

\* C3, as stated: a watcher accepted during a flush with an id smaller than
\* that of the running watcher is not run in that flush.
C3_SmallerWaitsForNextFlush == flog.ranSmall = {}

\* C3, amended: a watcher accepted during a flush with an id smaller than
\* that of the running watcher is put behind the cursor and is run later in
\* the same flush, unless the circular guard aborts the flush before.
C3_SmallerRunsInSameFlush ==
  /\ flushing => \A id \in flog.pendSmall : IsPending(id)
  /\ flog.exit = "normal" => flog.pendSmall = {}

C3_Witness == flog.exit = "normal" /\ flog.ranSmall # {}

\* C4, as stated: a watcher accepted during a flush with an id larger than
\* that of the running watcher is run later in the same flush, and the
\* entries behind the cursor stay sorted ascending by id.
C4_LargerRunsInSameFlush ==
  /\ flushing => IsSorted(SubSeq(queue, index + 2, Len(queue)))
  /\ flushing => \A id \in flog.pendLarge : IsPending(id)
  /\ flog.exit # "none" => flog.pendLarge = {}

\* C4, amended: ... is run later in the same flush unless the circular guard
\* aborts the flush before, and the entries behind the cursor stay sorted
\* ascending by id.
C4_LargerRunsUnlessAborted ==
  /\ flushing => IsSorted(SubSeq(queue, index + 2, Len(queue)))
  /\ flushing => \A id \in flog.pendLarge : IsPending(id)
  /\ flog.exit = "normal" => flog.pendLarge = {}

C4_Witness == flog.exit = "normal" /\ flog.ranLarge # {}

\* C5: a looper is run at most MAX_UPDATE_COUNT + 1 times in one flush; the
\* run that takes its counter above MAX_UPDATE_COUNT ends the loop with one
\* warning and the scheduler state reset.
C5_CircularGuard ==
  /\ \A id \in looper : Count(flog.runLog, id) <= MAX_UPDATE_COUNT + 1
  /\ \A id \in Ids : circular[id] <= MAX_UPDATE_COUNT
  /\ flog.warned = (IF flog.exit = "abort" THEN 1 ELSE 0)
  /\ flog.exit = "abort" =>
       /\ Count(flog.runLog, flog.runLog[Len(flog.runLog)]) = MAX_UPDATE_COUNT + 1
       /\ queue = <<>> /\ activatedChildren = <<>> /\ index = 0
       /\ has = [id \in Ids |-> FALSE]
       /\ circular = [id \in Ids |-> 0]
       /\ ~waiting /\ ~flushing

C5_Witness ==
  /\ flog.exit = "abort"
  /\ \E id \in looper : Count(flog.runLog, id) = MAX_UPDATE_COUNT + 1

\* C6: at most one flushSchedulerQueue is registered with nextTick and not
\* yet run; nextTick is called only by an enqueue that finds waiting false
\* and sets it, and waiting stays true until the flush resets the state.
C6_SingleScheduledFlush ==
  /\ [](ticks <= 1 /\ (ticks = 1 => waiting) /\ (waiting => ticks = 1 \/ flushing))
  /\ [][/\ ticks' > ticks => ~waiting /\ waiting' /\ ticks' = ticks + 1
        /\ waiting /\ ~waiting' => flushing /\ pc' = "post"]_vars

\* A hook of the flush that is still returning has scheduled the next one.
C6_Witness == pc = "updated" /\ ticks = 1 /\ waiting /\ ~flushing

\* -------------------------------------------------- resolver properties

\* C7: whatever the consumers, the callbacks and the timers do, the producer
\* is called at most once.
C7_ProducerInvokedOnce == rlog.invoked <= 1

\* Two consumers asked, both are pending, the producer was called once.
C7_Witness ==
  /\ rlog.invoked = 1
  /\ isDef(factory.contexts)
  /\ \A c \in {1, 2} : Count(Val(factory.contexts), c) = 1

\* C8, as stated: when resolve runs after the first call returned, every
\* consumer whose call returned before the unit was resolved has had exactly
\* one $forceUpdate from it, and no consumer is pending any more.
C8_ReplayToEveryWaitingConsumer ==
  rlog.resolvedAsync =>
    /\ \A c \in rlog.askedBefore : rlog.forced["resolve"][c] = 1
    /\ Val(factory.contexts) = <<>>

\* C9: factory.resolved is assigned at most once, and it is the normalized
\* argument of the first call of resolve whatever later calls pass.
C9_FirstCompletionWins ==
  /\ rlog.writes <= 1
  /\ isDef(factory.resolved) <=> isDef(rlog.first)
  /\ isDef(rlog.first) => factory.resolved = Def(ensureCtor(Val(rlog.first)))

\* resolve was called again with another result.
C9_Witness == rlog.differing /\ isDef(factory.resolved)

\* C10, as stated: once factory.resolved or factory.error is set, a call of
\* resolve or reject changes no field of the factory and forces no
\* re-evaluation; factory.resolved and factory.error are never both set.
Terminal == isDef(factory.resolved) \/ factory.error

C10_TerminalStatesFinal ==
  [][/\ Terminal /\ rlog.callbacks' > rlog.callbacks =>
          factory' = factory /\ rlog.forced' = rlog.forced
     /\ ~(isDef(factory.resolved') /\ factory.error')]_vars

\* The delay timer fires in this step.
DelayFires == timers.delay /\ ~timers'.delay

\* The step is the first request, of a descriptor with a loading substitute
\* and delay 0.
FirstCallDelay0 ==
  rlog.invoked' > rlog.invoked /\ producer.ret = "descriptor"
    /\ producer.loading /\ producer.delay0

\* The timer set factory.loading and called $forceUpdate on every pending
\* consumer, the list kept.
LoadingForced ==
  /\ factory'.loading
  /\ factory'.contexts = factory.contexts
  /\ \A c \in Consumers :
       rlog'.forced["loading"][c] =
         rlog.forced["loading"][c] + Count(Val(factory.contexts), c)

\* C11, as stated: (a) with delay 0 the first call sets factory.loading and
\* returns the loading substitute; (b) with another delay factory.loading
\* stays false until the timer fires, and the timer, if factory.resolved is
\* still unset, sets it and forces the pending consumers, the list kept;
\* (c) once resolved with factory.loading false, it never becomes true.
C11_LoadingThreshold ==
  /\ [](timers.delay => ~factory.loading)
  /\ [][/\ FirstCallDelay0 => factory'.loading /\ returned'.value = "loadingComp"
        /\ DelayFires /\ isUndef(factory.resolved) => LoadingForced
        /\ isDef(factory.resolved) /\ ~factory.loading => ~factory'.loading]_vars

\* C11, amended: as stated, but in (b) the timer acts if the unit is neither
\* resolved nor errored (factory.resolved and factory.error both unset) when
\* it fires, and changes nothing otherwise.
C11_LoadingThresholdUnlessErrored ==
  /\ [](timers.delay => ~factory.loading)
  /\ [][/\ FirstCallDelay0 => factory'.loading /\ returned'.value = "loadingComp"
        /\ DelayFires /\ isUndef(factory.resolved) /\ ~factory.error => LoadingForced
        /\ DelayFires /\ (isDef(factory.resolved) \/ factory.error) =>
             factory' = factory /\ rlog' = rlog
        /\ isDef(factory.resolved) /\ ~factory.loading => ~factory'.loading]_vars

\* The delay timer fired on a pending unit: two consumers forced, still listed.
C11_Witness ==
  /\ factory.loading
  /\ ~producer.delay0
  /\ \A c \in Consumers : rlog.forced["loading"][c] = 1
  /\ \A c \in Consumers : Count(Val(factory.contexts), c) = 1

\* The timeout timer fires in this step.
TimeoutFires == timers.timeout /\ ~timers'.timeout

\* C12, as stated: when the timeout timer fires on a unit that is not
\* resolved, reject is called with the timeout reason (the reason of record
\* if reject had not been called before) and factory.error is true after it;
\* when it fires on a resolved unit, nothing changes.
C12_TimeoutErrors ==
  [][/\ TimeoutFires /\ isUndef(factory.resolved) =>
          /\ rlog'.callbacks = rlog.callbacks + 1
          /\ ~called.reject => rlog'.reasons = <<"timeout">>
          /\ factory'.error
     /\ TimeoutFires /\ isDef(factory.resolved) =>
          factory' = factory /\ called' = called /\ rlog' = rlog]_vars

\* reject has run its body (it was called at least once).
Failed == rlog.reasons # <<>>

\* C17, as stated: the delay timer sets factory.loading and forces the
\* pending consumers only if the unit is neither resolved nor failed when it
\* fires; after a call of reject, with or without an error substitute,
\* factory.loading never becomes true and the timer forces nothing.
C17_LoadingTimerGuard ==
  [][/\ DelayFires /\ (isDef(factory.resolved) \/ Failed) =>
          factory' = factory /\ rlog'.forced = rlog.forced
     /\ Failed /\ ~factory.loading => ~factory'.loading]_vars

\* ----------------------------------------------------- array properties

\* The elements a call has to make observable: all arguments of push and
\* unshift, the arguments of splice from the third on, none otherwise.
NewElements ==
  IF acall.method \in {"push", "unshift"} THEN acall.args
  ELSE IF acall.method = "splice" /\ Len(acall.args) > 2
       THEN SubSeq(acall.args, 3, Len(acall.args))
  ELSE <<>>

\* C13: every call of an intercepted method notifies exactly once, after the
\* native method was applied and after the inserted elements were passed to
\* observeArray, and the elements passed are all arguments of push and
\* unshift, the arguments of splice from the third on, and none for pop,
\* shift, sort, reverse and a splice that only removes.
C13_ArrayInterception ==
  /\ apc = "notify" =>
       /\ acall.observed = NewElements
       /\ acall.events[1] = "native"
       /\ arr = Native(acall.method, acall.before, acall.args).arr
  /\ apc # "idle" => Count(acall.events, "notify") = 0
  /\ apc = "idle" /\ acall.method # "none" =>
       /\ Count(acall.events, "notify") = 1
       /\ Count(acall.events, "native") = 1
       /\ acall.events[1] = "native"
       /\ acall.events[Len(acall.events)] = "notify"
       /\ acall.observed = NewElements
       /\ arr = Native(acall.method, acall.before, acall.args).arr

\* splice(1, 0, x) on an array of two elements has returned.
C13_Witness ==
  /\ apc = "idle"
  /\ acall.method = "splice"
  /\ acall.args = <<1, 0, 2>>
  /\ acall.before = <<1, 1>>
  /\ arr = <<1, 2, 1>>
  /\ acall.observed = <<2>>
  /\ acall.events = <<"native", "observeArray", "notify">>

\* ------------------------------------------- more scheduler properties

\* The first position (1-based) of the part of the queue not yet executed:
\* the whole queue when no flush is running.
FirstPending == IF flushing THEN PendingFrom ELSE 1

PendingEntries(id) == {k \in FirstPending..Len(queue) : queue[k] = id}

\* C14: has[id] is set exactly when id sits in the part of the queue not yet
\* executed, and that part holds no id twice.
C14_PresenceSetConsistency ==
  \A id \in Ids :
    /\ has[id] <=> PendingEntries(id) # {}
    /\ Cardinality(PendingEntries(id)) <= 1

\* The running watcher was enqueued again by its own run(): its second
\* entry waits behind the cursor.
C14_Witness ==
  /\ flushing /\ pc = "run"
  /\ has[Current]
  /\ Count(queue, Current) = 2
  /\ \E id \in Ids \ {Current} : has[id]

\* flushSchedulerQueue is past its run loop: about to call the hooks, in a
\* hook, or between two of them.
AfterLoop == pc \in {"post", "activated", "updated", "passed"}

InHook == pc \in {"activated", "updated"}

\* C15: the step that ends the run loop, normally or by the circular guard,
\* copies the two queues and resets the scheduler state, and no hook is
\* called before it; the hooks leave the copies alone; a queueWatcher call
\* from a hook meets the reset state: it is appended, and a flush is
\* scheduled for it, by the first such call.
C15_ResetBeforeHooks ==
  /\ [](/\ InHook => AfterLoop /\ flog.exit # "none"
        /\ AfterLoop =>
             /\ ~flushing /\ index = 0 /\ activatedChildren = <<>>
             /\ circular = [id \in Ids |-> 0]
             /\ queue = <<>> => ~waiting /\ ticks = 0 /\ has = [id \in Ids |-> FALSE])
  /\ [][/\ ~AfterLoop /\ AfterLoop' =>
             /\ queue' = <<>> /\ activatedChildren' = <<>> /\ index' = 0
             /\ has' = [id \in Ids |-> FALSE]
             /\ ~waiting' /\ ~flushing'
             /\ updatedQueue' = queue /\ activatedQueue' = activatedChildren
        /\ InHook' => AfterLoop \/ AfterLoop'
        /\ AfterLoop /\ AfterLoop' =>
             updatedQueue' = updatedQueue /\ activatedQueue' = activatedQueue
        /\ InHook /\ queue' # queue =>
             /\ \E id \in Ids : ~has[id] /\ queue' = Append(queue, id)
             /\ waiting' /\ ticks' = 1
             /\ queue = <<>> => ticks' = ticks + 1]_vars

\* An updated hook of a flush the circular guard aborted has enqueued a
\* watcher: a new flush is scheduled while the old one is still returning.
C15_Witness ==
  /\ pc = "updated"
  /\ flog.exit = "abort"
  /\ Len(queue) = 1
  /\ waiting /\ ticks = 1
  /\ Len(updatedQueue) > 1

\* The step calls callHook(vm, 'updated'), for the watcher HookedId.
HookCalled == pc' = "updated" /\ (pc # "updated" \/ hookI' # hookI)

HookedId == updatedQueue'[hookI' + 1]

\* C16, as stated: 'updated' is called only on an entry that passed the test
\* of callUpdatedHooks, and no watcher gets it after a watcher with a
\* smaller id got it in the same flush (the child before the parent),
\* watchers enqueued during the flush included.
C16_ChildBeforeParent ==
  [][HookCalled =>
       /\ AfterLoop'
       /\ HookedId \in Range(updatedQueue)
       /\ \A id \in flog.hooked : id >= HookedId]_vars

\* C20, as stated: within one flush 'updated' is called at most once per
\* instance (per render watcher), and only for a watcher whose run() was
\* called in that flush, also when a watcher was enqueued again during the
\* flush or the circular guard ended the loop with watchers pending.
C20_UpdatedOncePerRun ==
  [][HookCalled =>
       /\ HookedId \notin flog.hooked
       /\ HookedId \in Range(flog.runLog)]_vars

\* C18, as stated: whatever the watchers' run() enqueue, themselves or each
\* other, no watcher is run more than MAX_UPDATE_COUNT + 1 times in one
\* flush (the circular guard ends the flush).
C18_FlushTerminates ==
  \A id \in Ids : Count(flog.runLog, id) <= MAX_UPDATE_COUNT + 1

\* run() of watcher id has just been called.
RunInvoked(id) == pc = "run" /\ Current = id /\ ~has[id]

====
